---- MODULE Spec2Model ----
(***************************************************************************)
(* State-machine model of bdsm-cmp-bot (src/src/main.rs): the in-memory    *)
(* registry behind its RwLock, the tiered backup done by persist, the      *)
(* symmetric match cache behind its Mutex, and the four commands.          *)
(***************************************************************************)
EXTENDS Integers, Sequences, FiniteSets, TLC

(* ------------------------------ bounds -------------------------------- *)

\* First wall-clock reading, in seconds since the epoch: two seconds before a
\* common boundary of the hourly, daily and 28-day buckets.
StartTime == 1700697598
\* Distinct instants the clock can report within one second.
SubSec == 2
\* Only the first StallWindow clock readings may fall in the same second as the
\* reading before them; every later reading falls in a new second.
StallWindow == 5
\* Mutating commands started in a run of the general specification.
MaxMut == 2
\* Listing/show commands started in a run of the general specification.
MaxRead == 2
\* Mutating commands started in a run of the backup specification.
MaxBackupMut == 22
\* A first wall-clock reading two hours before the hourly bucket key goes from
\* five digits to six.
RolloverTime == 359992800
\* In the retention specification the persist calls of the first HourRuns
\* commands find the clock an hour on, those of the later ones a day on.
HourRuns == 26
\* Mutating commands started in a run of the retention specification.
MaxRetentionMut == 58
\* Mutating and read-only commands started in a run of the fair specification.
MaxFairMut == 1
MaxFairRead == 2

(* ------------------------- program constants -------------------------- *)

KeepHistory == 20
KeepHourly == 24
KeepDaily == 30
\* usize::MAX, cut to 32 bits
KeepMonthly == 2147483647

Tiers == <<"history", "hourly", "daily", "monthly">>

(* ------------------------------ options ------------------------------- *)

\* Option<T>: the empty sequence is None, <<x>> is Some(x).
None == << >>
Some(x) == <<x>>
IsSome(o) == Len(o) = 1
Unwrap(o) == o[1]

EmptyMap == << >>

\* Lexicographic order of two strings given as sequences of character codes.
RECURSIVE LexLess(_, _)
LexLess(a, b) ==
  IF Len(b) = 0 THEN FALSE
  ELSE IF Len(a) = 0 THEN TRUE
  ELSE IF a[1] # b[1] THEN a[1] < b[1]
  ELSE LexLess(Tail(a), Tail(b))

(* ---------------------------- the registry ---------------------------- *)

\* A DateTime<Utc>: whole seconds s and the instant n within the second.
TimeLess(a, b) == a.s < b.s \/ (a.s = b.s /\ a.n < b.n)

\* HeadmateData is modelled by its results map (time -> result id).
\* UserData
DefaultUser == [primary |-> None, headmates |-> EmptyMap]

\* GlobalData is modelled by its guilds map, GuildData by its users map.
EmptyData == EmptyMap

MapPut(m, k, v) == [x \in DOMAIN m \cup {k} |-> IF x = k THEN v ELSE m[x]]
MapDel(m, k) == [x \in DOMAIN m \ {k} |-> m[x]]
OrDefault(m, k, v) == IF k \in DOMAIN m THEN m ELSE MapPut(m, k, v)

headmate(ud, name) ==
  IF IsSome(name)
  THEN IF Unwrap(name) \in DOMAIN ud.headmates
       THEN Some(ud.headmates[Unwrap(name)]) ELSE None
  ELSE ud.primary

headmate_mut(ud, name) ==
  IF IsSome(name)
  THEN [ud EXCEPT !.headmates = OrDefault(@, Unwrap(name), EmptyMap)]
  ELSE [ud EXCEPT !.primary = IF IsSome(@) THEN @ ELSE Some(EmptyMap)]

guild(d, g) == IF g \in DOMAIN d THEN Some(d[g]) ELSE None

guild_mut(d, g) == OrDefault(d, g, EmptyMap)

\* guild_mut followed by users.entry(author).or_insert_with(default)
WithUser(d, g, u) ==
  LET d1 == guild_mut(d, g)
  IN  [d1 EXCEPT ![g] = OrDefault(@, u, DefaultUser)]

\* results.iter().max_by_key(|h| h.0): None on an empty map
MostRecent(results) ==
  IF DOMAIN results = {} THEN None
  ELSE LET t == CHOOSE x \in DOMAIN results :
                  \A y \in DOMAIN results : y = x \/ TimeLess(y, x)
       IN  Some(results[t])

(* --------------------------- serialization ---------------------------- *)

SerHeadmate(results) == [results |-> results]

\* primary is skipped when None, headmates when empty
SerUser(ud) ==
  LET fields == (IF IsSome(ud.primary) THEN {"primary"} ELSE {})
                \cup (IF DOMAIN ud.headmates # {} THEN {"headmates"} ELSE {})
  IN  [f \in fields |->
         IF f = "primary" THEN SerHeadmate(Unwrap(ud.primary))
         ELSE [n \in DOMAIN ud.headmates |-> SerHeadmate(ud.headmates[n])]]

Serialize(d) ==
  [guilds |-> [g \in DOMAIN d |->
     [users |-> [u \in DOMAIN d[g] |-> SerUser(d[g][u])]]]]

DeUser(j) ==
  [primary |-> IF "primary" \in DOMAIN j THEN Some(j["primary"].results) ELSE None,
   headmates |-> IF "headmates" \in DOMAIN j
                 THEN [n \in DOMAIN j["headmates"] |-> j["headmates"][n].results]
                 ELSE EmptyMap]

Deserialize(doc) ==
  [g \in DOMAIN doc.guilds |->
     [u \in DOMAIN doc.guilds[g].users |-> DeUser(doc.guilds[g].users[u])]]

(* ------------------------------- files -------------------------------- *)

\* A file's content: a complete document, or the truncated output of a write
\* that failed part-way.
Written(d) == [valid |-> TRUE, doc |-> Serialize(d)]
Truncated(d) == [valid |-> FALSE, doc |-> Serialize(d)]

RECURSIVE Digits(_)
Digits(n) == IF n < 10 THEN <<48 + n>> ELSE Append(Digits(n \div 10), 48 + (n % 10))

\* format!("registry-{}.json", key), without the common prefix "registry-" and
\* the common suffix "json": the decimal digits and the '.' that ends them.
FileName(key) == Append(Digits(key), 46)

timestamp(t) == t.s

BucketKey(tier, ts) ==
  CASE tier = "history" -> ts
    [] tier = "hourly" -> (ts \div 60) \div 60
    [] tier = "daily" -> ((ts \div 60) \div 60) \div 24
    [] tier = "monthly" -> (((ts \div 60) \div 60) \div 24) \div 28

\* persist passing usize::MAX as the retention count of every tier
Keep_noLimit(tier) == KeepMonthly

Keep(tier) ==
  CASE tier = "history" -> KeepHistory
    [] tier = "hourly" -> KeepHourly
    [] tier = "daily" -> KeepDaily
    [] tier = "monthly" -> KeepMonthly

\* existing.sort_by_key(|f| f.path()): the keys of a folder in file-name order
RECURSIVE SortedKeys(_)
SortedKeys(keys) ==
  IF keys = {} THEN << >>
  ELSE LET k == CHOOSE x \in keys :
                  \A y \in keys : y = x \/ LexLess(FileName(x), FileName(y))
       IN  <<k>> \o SortedKeys(keys \ {k})

\* pruning that takes the files to delete from the end of the sorted listing
Prune_newest(dir, keep) ==
  LET count == Cardinality(DOMAIN dir)
      sorted == SortedKeys(DOMAIN dir)
  IN  IF count > keep
      THEN LET gone == {sorted[i] : i \in (keep + 1)..count}
           IN  [k \in DOMAIN dir \ gone |-> dir[k]]
      ELSE dir

\* remove the first count - keep files of the sorted listing
Prune(dir, keep) ==
  LET count == Cardinality(DOMAIN dir)
      sorted == SortedKeys(DOMAIN dir)
  IN  IF count > keep
      THEN LET gone == {sorted[i] : i \in 1..(count - keep)}
           IN  [k \in DOMAIN dir \ gone |-> dir[k]]
      ELSE dir

\* persist_folder on one tier. io names the system call that fails, if any.
persist_folder(dir, reg, key, keep, io) ==
  IF io = "fail_mkdir" THEN [dir |-> dir, ok |-> FALSE, copied |-> FALSE]
  ELSE IF ~IsSome(reg) THEN [dir |-> dir, ok |-> TRUE, copied |-> FALSE]
  ELSE LET copy == MapPut(dir, key, Unwrap(reg))
       IN  IF io = "fail_prune"
           THEN [dir |-> copy, ok |-> FALSE, copied |-> TRUE]
           ELSE [dir |-> Prune(copy, keep), ok |-> TRUE, copied |-> TRUE]

(* ------------------------------- state -------------------------------- *)

VARIABLES
  phase,      \* "boot" before setup has run, "ready" once GlobalState exists, "dead" if setup failed
  data,       \* GlobalState.data: the in-memory GlobalData
  rw,         \* the RwLock around data: [writer |-> Option<proc>, readers |-> set of procs]
  cache,      \* GlobalState.cache: Matchup -> score
  cacheLock,  \* the Mutex around cache: Option<proc>
  registry,   \* registry.json: Option<content>
  bku,        \* the four backup folders: tier -> (bucket key -> content)
  now,        \* the last reading of the wall clock
  reads,      \* clock readings so far, counted up to StallWindow
  pc,         \* where each task is
  op,         \* each task's command, its arguments and the locals of its persist call
  ls,         \* the locals of a task's list_compatibility call
  reply,      \* what each task's last command returned to its caller
  nmut,       \* mutating commands started
  nread,      \* read-only commands started
  writeLog,   \* the timestamps of the persist calls that overwrote registry.json, oldest first
  fetched     \* per unordered pair of result ids, the scores the Score Service returned, oldest first

vars == <<phase, data, rw, cache, cacheLock, registry, bku, now, reads, pc, op, ls,
          reply, nmut, nread, writeLog, fetched>>

\* The task of the setup callback, and the tasks that run commands.
Main == 0
Tasks == {1, 2}
Procs == {Main} \cup Tasks

Guilds == {1}
Users == {1, 2}
\* "Alex"
Alex == <<65, 108, 101, 120>>
Names == {Alex}
\* the result ids "ab" and "b"
ResultIds == {<<97, 98>>, <<98>>}
\* what the Score Service may answer
Scores == {0, 70}

IoFolder == {"ok", "fail_mkdir", "fail_prune"}
IoWrite == {"ok", "fail_create", "fail_write"}
ClockKinds == {"same", "tick", "sec"}

NoOp == [kind |-> "none", g |-> 0, u |-> 0, hm |-> None, ts |-> 0,
         pre |-> None, copied |-> {}]
NoLs == [subject |-> << >>, todo |-> << >>, rows |-> << >>]
NoReply == [status |-> "none", rows |-> << >>]

\* The time of the results registry.json holds when the process starts.
OldTime == [s |-> StartTime - 1, n |-> 0]
InitAt(files, start) ==
  /\ phase = "boot"
  /\ data = EmptyData
  /\ rw = [writer |-> None, readers |-> {}]
  /\ cache = EmptyMap
  /\ cacheLock = None
  /\ registry \in files
  /\ bku = [t \in {"history", "hourly", "daily", "monthly"} |-> EmptyMap]
  /\ now = [s |-> start, n |-> 0]
  /\ reads = 0
  /\ pc = [p \in Procs |-> "idle"]
  /\ op = [p \in Procs |-> NoOp]
  /\ ls = [p \in Procs |-> NoLs]
  /\ reply = [p \in Procs |-> NoReply]
  /\ nmut = 0
  /\ nread = 0
  /\ writeLog = << >>
  /\ fetched = EmptyMap

InitWith(files) == InitAt(files, StartTime)

(* ------------------------------ the clock ----------------------------- *)

\* Utc::now(): the wall clock never runs backwards here; a reading is the same
\* instant as the last one, a later instant of the same second, the next second,
\* or an hour or a day later.
ClockAfter(t, kind) ==
  CASE kind = "same" -> t
    [] kind = "tick" -> [s |-> t.s, n |-> t.n + 1]
    [] kind = "sec" -> [s |-> t.s + 1, n |-> 0]
    [] kind = "hour" -> [s |-> t.s + 3600, n |-> 0]
    [] kind = "day" -> [s |-> t.s + 86400, n |-> 0]

CanRead(kind) ==
  \/ kind \in {"sec", "hour", "day"}
  \/ kind = "same" /\ reads < StallWindow
  \/ kind = "tick" /\ reads < StallWindow /\ now.n + 1 < SubSec

ReadClock(kind) ==
  /\ CanRead(kind)
  /\ now' = ClockAfter(now, kind)
  /\ reads' = IF reads < StallWindow THEN reads + 1 ELSE reads

(* ------------------------------ the locks ----------------------------- *)

\* A write lock that does not wait for the readers.
CanWrite_ignoresReaders(l) == ~IsSome(l.writer)

CanWrite(l) == ~IsSome(l.writer) /\ l.readers = {}
CanReadLock(l) == ~IsSome(l.writer)

\* A cache that is used without waiting for its lock.
CacheFree_always(l) == TRUE

\* cache.lock().await returns once nobody holds the Mutex.
CacheFree(l) == ~IsSome(l)

\* A return that leaves the guards of the task alive.
Release_leak(l, p) == l

Release(l, p) ==
  [writer |-> IF l.writer = Some(p) THEN None ELSE l.writer,
   readers |-> l.readers \ {p}]

\* A command returns: its guards are dropped and its caller gets the result.
Return(p, status, rows) ==
  /\ pc' = [pc EXCEPT ![p] = "idle"]
  /\ op' = [op EXCEPT ![p] = NoOp]
  /\ ls' = [ls EXCEPT ![p] = NoLs]
  /\ reply' = [reply EXCEPT ![p] = [status |-> status, rows |-> rows]]
  /\ rw' = Release(rw, p)
  /\ cacheLock' = IF cacheLock = Some(p) THEN None ELSE cacheLock
  /\ phase' = IF p = Main THEN "ready" ELSE phase

(* ------------------------------- persist ------------------------------ *)

\* persist with all four persist_folder calls ahead of the write
PersistNext_backupsFirst(step) ==
  CASE step = "p_history" -> "p_hourly"
    [] step = "p_hourly" -> "p_daily"
    [] step = "p_daily" -> "p_monthly"
    [] step = "p_monthly" -> "p_write"
    [] step = "p_write" -> "p_done"

\* The order of the steps of persist; after the last one it returns Ok.
PersistNext(step) ==
  CASE step = "p_history" -> "p_write"
    [] step = "p_write" -> "p_hourly"
    [] step = "p_hourly" -> "p_daily"
    [] step = "p_daily" -> "p_monthly"
    [] step = "p_monthly" -> "p_done"

PersistPcs == {"p_history", "p_write", "p_hourly", "p_daily", "p_monthly"}

\* A command that reloads the registry from the file when persist fails.
PersistFailed_rollback(p) ==
  /\ Return(p, "err_persist", << >>)
  /\ data' = IF IsSome(registry) /\ Unwrap(registry).valid
             THEN Deserialize(Unwrap(registry).doc) ELSE data

\* persist returns Err: setup ignores it, a command returns it to its caller
\* with the registry in memory as the command left it.
PersistFailed(p) ==
  /\ Return(p, "err_persist", << >>)
  /\ data' = data

\* let now = Utc::now(); persist_folder("bku/history", ..., 20)?
PersistHistory(p, kind, io) ==
  /\ pc[p] = "p_history"
  /\ ReadClock(kind)
  /\ LET ts == timestamp(now')
         r == persist_folder(bku["history"], registry, BucketKey("history", ts),
                             Keep("history"), io)
     IN  /\ bku' = [bku EXCEPT !["history"] = r.dir]
         /\ IF r.ok
            THEN /\ pc' = [pc EXCEPT ![p] = PersistNext("p_history")]
                 /\ op' = [op EXCEPT ![p] =
                      [@ EXCEPT !.ts = ts, !.pre = registry,
                                !.copied = IF r.copied THEN {"history"} ELSE {}]]
                 /\ UNCHANGED <<data, ls, reply, rw, cacheLock, phase>>
            ELSE PersistFailed(p)
  /\ UNCHANGED <<cache, registry, nmut, nread, writeLog, fetched>>

\* File::create(REGISTRY)?; serde_json::to_writer_pretty(&mut output, data)?
PersistWrite(p, io) ==
  /\ pc[p] = "p_write"
  /\ IF io = "ok"
     THEN /\ registry' = Some(Written(data))
          /\ writeLog' = Append(writeLog, op[p].ts)
          /\ pc' = [pc EXCEPT ![p] = PersistNext("p_write")]
          /\ UNCHANGED <<data, op, ls, reply, rw, cacheLock, phase>>
     ELSE /\ registry' = IF io = "fail_write" THEN Some(Truncated(data)) ELSE registry
          /\ writeLog' = writeLog
          /\ PersistFailed(p)
  /\ UNCHANGED <<cache, bku, now, reads, nmut, nread, fetched>>

TierPc(tier) ==
  CASE tier = "hourly" -> "p_hourly"
    [] tier = "daily" -> "p_daily"
    [] tier = "monthly" -> "p_monthly"

\* persist_folder("bku/hourly", ...)?, persist_folder("bku/daily", ...)?,
\* persist_folder("bku/monthly", ...)?
PersistTier(p, tier, io) ==
  /\ pc[p] = TierPc(tier)
  /\ LET r == persist_folder(bku[tier], registry, BucketKey(tier, op[p].ts),
                             Keep(tier), io)
     IN  /\ bku' = [bku EXCEPT ![tier] = r.dir]
         /\ IF r.ok
            THEN /\ pc' = [pc EXCEPT ![p] = PersistNext(TierPc(tier))]
                 /\ op' = [op EXCEPT ![p].copied =
                             IF r.copied THEN @ \cup {tier} ELSE @]
                 /\ UNCHANGED <<data, ls, reply, rw, cacheLock, phase>>
            ELSE PersistFailed(p)
  /\ UNCHANGED <<cache, registry, now, reads, nmut, nread, writeLog, fetched>>

(* -------------------------------- setup ------------------------------- *)

\* serde_json::from_str(&read_to_string(REGISTRY).unwrap_or_default())?: a missing
\* file reads as "", which is no JSON document, and neither is a truncated one.
Parses(reg) == IsSome(reg) /\ Unwrap(reg).valid

\* The setup callback up to its persist call.
Boot ==
  /\ phase = "boot"
  /\ pc[Main] = "idle"
  /\ IF Parses(registry)
     THEN /\ data' = Deserialize(Unwrap(registry).doc)
          /\ pc' = [pc EXCEPT ![Main] = "p_history"]
          /\ op' = [op EXCEPT ![Main] = [NoOp EXCEPT !.kind = "main"]]
          /\ phase' = phase
     ELSE /\ phase' = "dead"
          /\ UNCHANGED <<data, pc, op>>
  /\ UNCHANGED <<rw, cache, cacheLock, registry, bku, now, reads, ls, reply,
                 nmut, nread, writeLog, fetched>>

\* let _ = persist(&results); Ok(GlobalState { .. })
BootDone ==
  /\ pc[Main] = "p_done"
  /\ Return(Main, "ok", << >>)
  /\ UNCHANGED <<data, cache, registry, bku, now, reads, nmut, nread, writeLog, fetched>>

(* --------------------------- add_bdsm_result -------------------------- *)

\* add_bdsm_result without its results.insert: headmate_mut alone
AddResult_noInsert(d, g, u, hm, t, id) ==
  LET d1 == WithUser(d, g, u)
  IN  [d1 EXCEPT ![g][u] = headmate_mut(d1[g][u], hm)]

AddResult(d, g, u, hm, t, id) ==
  LET d1 == WithUser(d, g, u)
      ud == headmate_mut(d1[g][u], hm)
      ud2 == IF IsSome(hm)
             THEN [ud EXCEPT !.headmates[Unwrap(hm)] = MapPut(@, t, id)]
             ELSE [ud EXCEPT !.primary = Some(MapPut(Unwrap(@), t, id))]
  IN  [d1 EXCEPT ![g][u] = ud2]

\* data.write().await, then the block that inserts the result
AddBegin(p, g, u, hm, id, kind, cap) ==
  /\ phase = "ready"
  /\ pc[p] = "idle"
  /\ nmut < cap
  /\ CanWrite(rw)
  /\ ReadClock(kind)
  /\ rw' = [rw EXCEPT !.writer = Some(p)]
  /\ data' = AddResult(data, g, u, hm, now', id)
  /\ pc' = [pc EXCEPT ![p] = "p_history"]
  /\ op' = [op EXCEPT ![p] = [NoOp EXCEPT !.kind = "add", !.g = g, !.u = u, !.hm = hm]]
  /\ reply' = [reply EXCEPT ![p] = NoReply]
  /\ nmut' = nmut + 1
  /\ UNCHANGED <<phase, cache, cacheLock, registry, bku, ls, nread, writeLog, fetched>>

\* ctx.reply(..).await and the return that drops the write guard
MutDone(p) ==
  /\ p # Main
  /\ pc[p] = "p_done"
  /\ Return(p, "ok", << >>)
  /\ UNCHANGED <<data, cache, registry, bku, now, reads, nmut, nread, writeLog, fetched>>

(* ------------------------- remove_bdsm_results ------------------------ *)

\* remove_bdsm_results without the ok_or_else(..)? on the removed entry
RemoveFound_always(d, g, u, hm) == TRUE

RemoveFound(d, g, u, hm) ==
  LET ud == WithUser(d, g, u)[g][u]
  IN  IsSome(headmate(ud, hm))

\* remove_bdsm_results dropping the caller's UserData once nothing is left in it
RemoveResults_cascade(d, g, u, hm) ==
  LET d1 == WithUser(d, g, u)
      d2 == IF ~RemoveFound(d, g, u, hm) THEN d1
            ELSE IF IsSome(hm)
            THEN [d1 EXCEPT ![g][u].headmates = MapDel(@, Unwrap(hm))]
            ELSE [d1 EXCEPT ![g][u].primary = None]
  IN  IF d2[g][u] = DefaultUser THEN [d2 EXCEPT ![g] = MapDel(@, u)] ELSE d2

RemoveResults(d, g, u, hm) ==
  LET d1 == WithUser(d, g, u)
  IN  IF ~RemoveFound(d, g, u, hm) THEN d1
      ELSE IF IsSome(hm)
      THEN [d1 EXCEPT ![g][u].headmates = MapDel(@, Unwrap(hm))]
      ELSE [d1 EXCEPT ![g][u].primary = None]

\* data.write().await, then the block that removes the entry, or returns the
\* "No entries found" / "No data for primary entry" error
RemoveBegin(p, g, u, hm, cap) ==
  /\ phase = "ready"
  /\ pc[p] = "idle"
  /\ nmut < cap
  /\ CanWrite(rw)
  /\ data' = RemoveResults(data, g, u, hm)
  /\ nmut' = nmut + 1
  /\ IF RemoveFound(data, g, u, hm)
     THEN /\ rw' = [rw EXCEPT !.writer = Some(p)]
          /\ pc' = [pc EXCEPT ![p] = "p_history"]
          /\ op' = [op EXCEPT ![p] =
                      [NoOp EXCEPT !.kind = "remove", !.g = g, !.u = u, !.hm = hm]]
          /\ reply' = [reply EXCEPT ![p] = NoReply]
          /\ UNCHANGED <<ls, cacheLock, phase>>
     ELSE Return(p, IF IsSome(hm) THEN "err_no_entries" ELSE "err_no_primary", << >>)
  /\ UNCHANGED <<cache, registry, bku, now, reads, nread, writeLog, fetched>>

(* ------------------------------ get_match ----------------------------- *)

\* Matchup::new without the comparison: the key keeps the order of the request.
Matchup_new_asGiven(a, b) == <<a, b>>

Matchup_new(a, b) == IF LexLess(a, b) THEN <<a, b>> ELSE <<b, a>>

\* Matchup::from(request)
CacheKey(req) == Matchup_new(req.person, req.partner)

\* cache.0.get(&cache_key)
CacheGet(c, req) ==
  IF CacheKey(req) \in DOMAIN c THEN Some(c[CacheKey(req)]) ELSE None

\* get_match inserting on a failed call as well, with a default score.
CacheStore_alsoFailures(c, req, resp) ==
  MapPut(c, Matchup_new(req.person, req.partner), IF IsSome(resp) THEN Unwrap(resp) ELSE 0)

\* What the answer of the Score Service leaves in the cache: Some(score) is
\* inserted, a failed call (None) returns before the insert.
CacheStore(c, req, resp) ==
  IF IsSome(resp) THEN MapPut(c, CacheKey(req), Unwrap(resp)) ELSE c

\* The unordered pair a request is about.
PairOf(req) == {req.person, req.partner}

Fetches(pair) == IF pair \in DOMAIN fetched THEN fetched[pair] ELSE << >>

(* -------------------------- list_compatibility ------------------------ *)

RECURSIVE SortedNames(_)
SortedNames(names) ==
  IF names = {} THEN << >>
  ELSE LET n == CHOOSE x \in names : \A y \in names : y = x \/ LexLess(x, y)
       IN  <<n>> \o SortedNames(names \ {n})

\* The entities of one UserData in the order the loop body visits them: the
\* primary if there is one, then the headmates by name.
UserEntities(u, ud) ==
  (IF IsSome(ud.primary)
   THEN <<[u |-> u, hm |-> None, results |-> Unwrap(ud.primary)]>> ELSE << >>)
  \o [i \in 1..Cardinality(DOMAIN ud.headmates) |->
        LET n == SortedNames(DOMAIN ud.headmates)[i]
        IN  [u |-> u, hm |-> Some(n), results |-> ud.headmates[n]]]

\* for (&user_id, person) in &guild.users, by ascending user id
RECURSIVE EntitiesFrom(_, _)
EntitiesFrom(gd, users) ==
  IF users = {} THEN << >>
  ELSE LET u == CHOOSE x \in users : \A y \in users : x <= y
       IN  UserEntities(u, gd[u]) \o EntitiesFrom(gd, users \ {u})

\* The loop with its commented-out "if user_id == ctx.author().id { continue; }"
Candidates_others(gd, author) == EntitiesFrom(gd, DOMAIN gd \ {author})

Candidates(gd, author) == EntitiesFrom(gd, DOMAIN gd)

\* The lookups of guild, person, headmate and most recent result, each with
\* its error.
Resolve(d, g, u, hm) ==
  IF ~IsSome(guild(d, g)) THEN [err |-> "err_no_guild", id |-> None]
  ELSE IF u \notin DOMAIN d[g] THEN [err |-> "err_no_user", id |-> None]
  ELSE IF ~IsSome(headmate(d[g][u], hm)) THEN [err |-> "err_no_headmate", id |-> None]
  ELSE [err |-> "ok", id |-> MostRecent(Unwrap(headmate(d[g][u], hm)))]

\* data.read().await up to the start of the loop
ListBegin(p, g, u, hm, cap) ==
  /\ phase = "ready"
  /\ pc[p] = "idle"
  /\ nread < cap
  /\ CanReadLock(rw)
  /\ nread' = nread + 1
  /\ LET r == Resolve(data, g, u, hm)
     IN  IF r.err # "ok" THEN Return(p, r.err, << >>)
         ELSE IF ~IsSome(r.id) THEN Return(p, "err_no_results", << >>)
         ELSE /\ rw' = [rw EXCEPT !.readers = @ \cup {p}]
              /\ pc' = [pc EXCEPT ![p] = "l_next"]
              /\ op' = [op EXCEPT ![p] =
                          [NoOp EXCEPT !.kind = "list", !.g = g, !.u = u, !.hm = hm]]
              /\ ls' = [ls EXCEPT ![p] =
                          [subject |-> Unwrap(r.id), todo |-> Candidates(data[g], u),
                           rows |-> << >>]]
              /\ reply' = [reply EXCEPT ![p] = NoReply]
              /\ UNCHANGED <<cacheLock, phase>>
  /\ UNCHANGED <<data, cache, registry, bku, now, reads, nmut, writeLog, fetched>>

Row(e, req, score) == [score |-> score, u |-> e.u, hm |-> e.hm, req |-> req]

\* One candidate: cache.lock().await, the MatchRequest (which panics on a
\* candidate without results), and get_match up to its answer from the cache
\* or its request to the Score Service.
ListMatch(p) ==
  /\ pc[p] = "l_next"
  /\ ls[p].todo # << >>
  /\ CacheFree(cacheLock)
  /\ LET e == Head(ls[p].todo)
         partner == MostRecent(e.results)
     IN  IF ~IsSome(partner) THEN Return(p, "panic", << >>)
         ELSE LET req == [person |-> ls[p].subject, partner |-> Unwrap(partner)]
                  hit == CacheGet(cache, req)
              IN  /\ IF IsSome(hit)
                     THEN /\ ls' = [ls EXCEPT ![p].todo = Tail(@),
                                              ![p].rows = Append(@, Row(e, req, Unwrap(hit)))]
                          /\ UNCHANGED <<pc, cacheLock>>
                     ELSE /\ pc' = [pc EXCEPT ![p] = "l_net"]
                          /\ cacheLock' = Some(p)
                          /\ ls' = ls
                  /\ UNCHANGED <<op, reply, rw, phase>>
  /\ UNCHANGED <<data, cache, registry, bku, now, reads, nmut, nread, writeLog, fetched>>

\* unwrap_or_default in place of unwrap_or_else(|_| -1)
ScoreOrInvalid_default(resp) == IF IsSome(resp) THEN Unwrap(resp) ELSE 0

\* .map(|score| score as i32).unwrap_or_else(|_| -1)
ScoreOrInvalid(resp) == IF IsSome(resp) THEN Unwrap(resp) ELSE -1

\* The answer of the Score Service, Some(score) or None for a failed call, and
\* the rest of the loop body.
ListNet(p, resp) ==
  /\ pc[p] = "l_net"
  /\ LET e == Head(ls[p].todo)
         req == [person |-> ls[p].subject, partner |-> Unwrap(MostRecent(e.results))]
         score == ScoreOrInvalid(resp)
     IN  /\ cache' = CacheStore(cache, req, resp)
         /\ fetched' = IF IsSome(resp)
                       THEN MapPut(fetched, PairOf(req),
                                   Append(Fetches(PairOf(req)), Unwrap(resp)))
                       ELSE fetched
         /\ ls' = [ls EXCEPT ![p].todo = Tail(@),
                             ![p].rows = Append(@, Row(e, req, score))]
  /\ pc' = [pc EXCEPT ![p] = "l_next"]
  /\ cacheLock' = None
  /\ UNCHANGED <<phase, data, rw, registry, bku, now, reads, op, reply, nmut, nread,
                 writeLog>>

\* results.sort_by_key(|(s, _)| *s): the sort without the negation
RECURSIVE SortRows_ascending(_)
SortRows_ascending(rows) ==
  IF rows = << >> THEN << >>
  ELSE LET i == CHOOSE x \in 1..Len(rows) :
                  /\ \A y \in 1..Len(rows) : rows[x].score <= rows[y].score
                  /\ \A y \in 1..(x - 1) : rows[y].score # rows[x].score
       IN  <<rows[i]>>
           \o SortRows_ascending(SubSeq(rows, 1, i - 1) \o SubSeq(rows, i + 1, Len(rows)))

\* results.sort_by_key(|(s, _)| -s): a stable sort
RECURSIVE SortRows(_)
SortRows(rows) ==
  IF rows = << >> THEN << >>
  ELSE LET i == CHOOSE x \in 1..Len(rows) :
                  /\ \A y \in 1..Len(rows) : -rows[x].score <= -rows[y].score
                  /\ \A y \in 1..(x - 1) : -rows[y].score # -rows[x].score
       IN  <<rows[i]>> \o SortRows(SubSeq(rows, 1, i - 1) \o SubSeq(rows, i + 1, Len(rows)))

\* The sort, the rendering and ctx.send(..)
ListDone(p) ==
  /\ pc[p] = "l_next"
  /\ ls[p].todo = << >>
  /\ Return(p, "ok", SortRows(ls[p].rows))
  /\ UNCHANGED <<data, cache, registry, bku, now, reads, nmut, nread, writeLog, fetched>>

(* ------------------------------ show_result --------------------------- *)

\* data.read().await and the lookups of guild, person and headmate
ShowBegin(p, g, u, hm, cap) ==
  /\ phase = "ready"
  /\ pc[p] = "idle"
  /\ nread < cap
  /\ CanReadLock(rw)
  /\ nread' = nread + 1
  /\ LET r == Resolve(data, g, u, hm)
     IN  IF r.err # "ok" THEN Return(p, r.err, << >>)
         ELSE /\ rw' = [rw EXCEPT !.readers = @ \cup {p}]
              /\ pc' = [pc EXCEPT ![p] = "s_fetch"]
              /\ op' = [op EXCEPT ![p] =
                          [NoOp EXCEPT !.kind = "show", !.g = g, !.u = u, !.hm = hm]]
              /\ reply' = [reply EXCEPT ![p] = NoReply]
              /\ UNCHANGED <<ls, cacheLock, phase>>
  /\ UNCHANGED <<data, cache, registry, bku, now, reads, nmut, writeLog, fetched>>

\* The loop over the results (one get_result and one reply each) and the return
ShowDone(p) ==
  /\ pc[p] = "s_fetch"
  /\ Return(p, "ok", << >>)
  /\ UNCHANGED <<data, cache, registry, bku, now, reads, nmut, nread, writeLog, fetched>>

(* --------------------------- specifications --------------------------- *)

HmArgs == {None} \cup {Some(n) : n \in Names}
Answers == {None} \cup {Some(s) : s \in Scores}

Persist(p, kinds, ios, wios) ==
  \/ \E kind \in kinds, io \in ios : PersistHistory(p, kind, io)
  \/ \E io \in wios : PersistWrite(p, io)
  \/ \E io \in ios : PersistTier(p, "hourly", io)
  \/ \E io \in ios : PersistTier(p, "daily", io)
  \/ \E io \in ios : PersistTier(p, "monthly", io)

\* ctx.author().id: each task serves the commands of one user.
Author(p) == p

\* The general specification: two tasks run all four commands for their users
\* in one guild, starting from a missing or an empty registry file; every clock
\* reading falls in a new second and no file operation fails.
Init == InitWith({None, Some(Written(EmptyData))})

Next ==
  \/ Boot
  \/ BootDone
  \/ \E p \in Procs : Persist(p, {"sec"}, {"ok"}, {"ok"})
  \/ \E p \in Tasks, g \in Guilds, hm \in HmArgs, id \in {<<98>>} :
        AddBegin(p, g, Author(p), hm, id, "sec", MaxMut)
  \/ \E p \in Tasks, g \in Guilds, hm \in HmArgs :
        RemoveBegin(p, g, Author(p), hm, MaxMut)
  \/ \E p \in Tasks : MutDone(p)
  \/ \E p \in Tasks, g \in Guilds, hm \in HmArgs :
        ListBegin(p, g, Author(p), hm, MaxRead)
  \/ \E p \in Tasks : ListMatch(p)
  \/ \E p \in Tasks, resp \in Answers : ListNet(p, resp)
  \/ \E p \in Tasks : ListDone(p)
  \/ \E p \in Tasks, g \in Guilds, hm \in HmArgs :
        ShowBegin(p, g, Author(p), hm, MaxRead)
  \/ \E p \in Tasks : ShowDone(p)

Spec == Init /\ [][Next]_vars

\* registry.json is removed from outside the process: the case that
\* persist_folder's is_file test is there for.
RegistryLost ==
  /\ IsSome(registry)
  /\ registry' = None
  /\ UNCHANGED <<phase, data, rw, cache, cacheLock, bku, now, reads, pc, op, ls,
                 reply, nmut, nread, writeLog, fetched>>

\* The persistence specification: one task adds and removes the primary results
\* of its user; every file operation may fail and the registry file may go
\* missing; every clock reading falls in a new second.
InitPersist == InitWith({Some(Written(EmptyData))})

NextPersist ==
  \/ Boot
  \/ BootDone
  \/ \E p \in {Main, 1} : Persist(p, {"sec"}, IoFolder, IoWrite)
  \/ AddBegin(1, 1, Author(1), None, <<98>>, "sec", MaxMut)
  \/ RemoveBegin(1, 1, Author(1), None, MaxMut)
  \/ MutDone(1)
  \/ RegistryLost

SpecPersist == InitPersist /\ [][NextPersist]_vars

\* The backup specification: one task adds result after result, no file
\* operation fails.
InitBackup == InitWith({Some(Written(EmptyData))})

NextBackup ==
  \/ Boot
  \/ BootDone
  \/ \E p \in {Main, 1} : Persist(p, ClockKinds, {"ok"}, {"ok"})
  \/ \E kind \in ClockKinds : AddBegin(1, 1, Author(1), None, <<98>>, kind, MaxBackupMut)
  \/ MutDone(1)

SpecBackup == InitBackup /\ [][NextBackup]_vars

\* The listing specification: the registry file holds the results of two users
\* and two tasks run list_compatibility for them; the Score Service may fail.
ListData ==
  (1 :> (1 :> [primary |-> Some(OldTime :> <<97, 98>>), headmates |-> EmptyMap]
         @@ 2 :> [primary |-> Some(OldTime :> <<98>>),
                  headmates |-> (Alex :> (OldTime :> <<97, 98>>))]))

InitList == InitWith({Some(Written(ListData))})

NextList ==
  \/ Boot
  \/ BootDone
  \/ Persist(Main, {"sec"}, {"ok"}, {"ok"})
  \/ \E p \in Tasks, hm \in HmArgs : ListBegin(p, 1, Author(p), hm, MaxRead)
  \/ \E p \in Tasks : ListMatch(p)
  \/ \E p \in Tasks, resp \in Answers : ListNet(p, resp)
  \/ \E p \in Tasks : ListDone(p)

SpecList == InitList /\ [][NextList]_vars

\* The mutation specification: the registry file holds the results of two
\* users, and two tasks run add and remove commands for them; every clock
\* reading falls in a new second and no file operation fails.
NextMutate ==
  \/ Boot
  \/ BootDone
  \/ \E p \in Procs : Persist(p, {"sec"}, {"ok"}, {"ok"})
  \/ \E p \in Tasks, hm \in HmArgs : AddBegin(p, 1, Author(p), hm, <<98>>, "sec", MaxMut)
  \/ \E p \in Tasks, hm \in HmArgs : RemoveBegin(p, 1, Author(p), hm, MaxMut)
  \/ \E p \in Tasks : MutDone(p)

SpecMutate == InitList /\ [][NextMutate]_vars

\* The fair specification: the registry file holds one result each of two users and
\* two tasks run all four commands on their primary entries, under fair
\* scheduling: the runtime goes on polling a task that can take its next step,
\* a network call returns, and a task is not left waiting for a cache Mutex
\* that stays free. Nothing obliges a user to start a command.
FairData ==
  (1 :> (1 :> [primary |-> Some(OldTime :> <<97, 98>>), headmates |-> EmptyMap]
         @@ 2 :> [primary |-> Some(OldTime :> <<98>>), headmates |-> EmptyMap]))

InitFair == InitWith({Some(Written(FairData))})

FairAnswers == {None, Some(70)}

NextFair ==
  \/ Boot
  \/ BootDone
  \/ \E p \in Procs : Persist(p, {"sec"}, {"ok"}, {"ok"})
  \/ \E p \in Tasks : AddBegin(p, 1, Author(p), None, <<98>>, "sec", MaxFairMut)
  \/ \E p \in Tasks : RemoveBegin(p, 1, Author(p), None, MaxFairMut)
  \/ \E p \in Tasks : MutDone(p)
  \/ \E p \in Tasks : ListBegin(p, 1, Author(p), None, MaxFairRead)
  \/ \E p \in Tasks : ListMatch(p)
  \/ \E p \in Tasks, resp \in FairAnswers : ListNet(p, resp)
  \/ \E p \in Tasks : ListDone(p)
  \/ \E p \in Tasks : ShowBegin(p, 1, Author(p), None, MaxFairRead)
  \/ \E p \in Tasks : ShowDone(p)

Fairness ==
  /\ WF_vars(BootDone)
  /\ \A p \in Procs : WF_vars(Persist(p, {"sec"}, {"ok"}, {"ok"}))
  /\ \A p \in Tasks :
       /\ WF_vars(MutDone(p))
       /\ WF_vars(ListMatch(p))
       /\ WF_vars(\E resp \in FairAnswers : ListNet(p, resp))
       /\ WF_vars(ListDone(p))
       /\ WF_vars(ShowDone(p))

SpecFair == InitFair /\ [][NextFair]_vars /\ Fairness

\* The loading specification: as the listing specification, and the registry
\* file may also hold a HeadmateData without results, which setup loads as it is.
LoadData ==
  (1 :> (1 :> [primary |-> Some(OldTime :> <<97, 98>>),
               headmates |-> (Alex :> EmptyMap)]
         @@ 2 :> [primary |-> Some(OldTime :> <<98>>), headmates |-> EmptyMap]))

InitLoad == InitWith({Some(Written(ListData)), Some(Written(LoadData))})

SpecLoad == InitLoad /\ [][NextList]_vars

\* The retention specification: one task adds result after result, hours and
\* then days apart, from a present-day clock or from one about to roll the
\* hourly bucket key over to one more digit; no file operation fails.
RetentionKind == IF nmut <= HourRuns THEN "hour" ELSE "day"

InitRetention ==
  \E start \in {StartTime, RolloverTime} : InitAt({Some(Written(EmptyData))}, start)

NextRetention ==
  \/ Boot
  \/ BootDone
  \/ \E p \in {Main, 1} : Persist(p, {RetentionKind}, {"ok"}, {"ok"})
  \/ AddBegin(1, 1, Author(1), None, <<98>>, "sec", MaxRetentionMut)
  \/ MutDone(1)

SpecRetention == InitRetention /\ [][NextRetention]_vars

(* ------------------------- vocabulary of the claims -------------------- *)

\* The request task p's loop is about to make, or has in flight.
CurReq(p) ==
  [person |-> ls[p].subject, partner |-> Unwrap(MostRecent(Head(ls[p].todo).results))]

\* Task p's step sends a request to the Score Service.
SendsRequest(p) == pc[p] = "l_next" /\ pc'[p] = "l_net"

\* Task p's step finishes the lookup for its current candidate with a row.
AddsRow(p) ==
  /\ pc[p] \in {"l_next", "l_net"}
  /\ pc'[p] = "l_next"
  /\ Len(ls'[p].rows) = Len(ls[p].rows) + 1

NewRow(p) == ls'[p].rows[Len(ls'[p].rows)]

\* Every row task p has computed or returned.
RowsOf(p) == {ls[p].rows[i] : i \in 1..Len(ls[p].rows)}
             \cup {reply[p].rows[i] : i \in 1..Len(reply[p].rows)}

Reversed(req) == [person |-> req.partner, partner |-> req.person]

(* -------------------------------- C1 ---------------------------------- *)

\* C1: once the Score Service has answered a lookup for the pair {A, B}, no
\* later lookup for (A, B) or (B, A) sends a request, and each returns the
\* score of that first answer.
C1_SymmetricMemo ==
  [][\A p \in Tasks :
       /\ SendsRequest(p) => Fetches(PairOf(CurReq(p))) = << >>
       /\ (AddsRow(p) /\ Fetches(PairOf(CurReq(p))) # << >>)
            => NewRow(p).score = Fetches(PairOf(CurReq(p)))[1]]_vars

\* A pair of distinct ids was looked up in both orders, both lookups have a
\* score, and the Score Service answered for the pair once.
C1_Witness ==
  \E p \in Tasks, q \in Tasks : \E r1 \in RowsOf(p), r2 \in RowsOf(q) :
    /\ r1.req.person # r1.req.partner
    /\ r2.req = Reversed(r1.req)
    /\ r1.score >= 0 /\ r2.score = r1.score
    /\ Len(Fetches(PairOf(r1.req))) = 1

(* -------------------------------- C8 ---------------------------------- *)

\* C8: a failed Score Service call leaves the cache as it was, and a lookup is
\* answered from the cache only for a pair the Score Service has answered: a
\* lookup for a pair whose calls have all failed sends the request again.
C8_FailureNotCached ==
  [][\A p \in Tasks :
       /\ (pc[p] = "l_net" /\ pc'[p] # "l_net" /\ fetched' = fetched) => cache' = cache
       /\ (pc[p] = "l_next" /\ AddsRow(p)) => Fetches(PairOf(CurReq(p))) # << >>]_vars

\* A lookup for a pair has failed, in either order of its ids, and a later
\* lookup for that pair has its request in flight.
C8_Witness ==
  \E p \in Tasks, q \in Tasks : \E r \in RowsOf(p) :
    /\ r.score = -1
    /\ pc[q] = "l_net"
    /\ PairOf(CurReq(q)) = PairOf(r.req)
    /\ Fetches(PairOf(r.req)) = << >>

(* -------------------------------- C9 ---------------------------------- *)

\* The entities whose rows task p has, followed by those still to do.
Visited(p) ==
  [i \in 1..Len(ls[p].rows) |-> <<ls[p].rows[i].u, ls[p].rows[i].hm>>]
  \o [i \in 1..Len(ls[p].todo) |-> <<ls[p].todo[i].u, ls[p].todo[i].hm>>]

EntityIds(es) == [i \in 1..Len(es) |-> <<es[i].u, es[i].hm>>]

\* C9: the answer to a request ends that candidate's lookup and no more: a
\* failed call adds the row -1 for the candidate, an answered one the score, the
\* rows before it stay, the listing goes on to the next candidate, and the
\* listing that returns has one row per candidate.
C9_FailureIsOneRow ==
  [][\A p \in Tasks :
       /\ (pc[p] = "l_net" /\ pc'[p] # "l_net") =>
            /\ AddsRow(p)
            /\ SubSeq(ls'[p].rows, 1, Len(ls[p].rows)) = ls[p].rows
            /\ ls'[p].todo = Tail(ls[p].todo)
            /\ <<NewRow(p).u, NewRow(p).hm>> = <<Head(ls[p].todo).u, Head(ls[p].todo).hm>>
            /\ IF fetched' = fetched THEN NewRow(p).score = -1
               ELSE NewRow(p).score \in Scores
       /\ (pc[p] = "l_next" /\ pc'[p] = "idle" /\ reply'[p].status = "ok") =>
            /\ ls[p].todo = << >>
            /\ Len(reply'[p].rows) = Len(ls[p].rows)
            /\ {reply'[p].rows[i] : i \in 1..Len(ls[p].rows)}
                 = {ls[p].rows[i] : i \in 1..Len(ls[p].rows)}]_vars

\* A listing has returned with one row per entity of the guild, the first
\* candidate's row invalid and a later candidate's row a score.
C9_Witness ==
  \E p \in Tasks :
    /\ reply[p].status = "ok"
    /\ Len(reply[p].rows) = 3
    /\ \E i \in 1..3, j \in 1..3 :
         /\ reply[p].rows[i].u = 1 /\ reply[p].rows[i].score = -1
         /\ reply[p].rows[j].u = 2 /\ reply[p].rows[j].score >= 0

(* -------------------------------- C6 ---------------------------------- *)

C4_WriterExclusive ==
  \A p \in Tasks :
    pc[p] \in PersistPcs =>
      /\ rw.writer = Some(p)
      /\ rw.readers = {}
      /\ \A q \in Procs \ {p} : pc[q] = "idle"

\* A remove command is in the middle of persist, after a listing that asked the
\* Score Service has run.
C4_Witness ==
  \E p \in Tasks :
    /\ pc[p] = "p_write" /\ op[p].kind = "remove"
    /\ nread > 0 /\ DOMAIN fetched # {}

(* -------------------------------- C5 ---------------------------------- *)

\* The step is a mutating command that returns at once: a remove command
\* that does not find its target.
RemoveReturns == nmut' # nmut /\ pc' = pc

\* C5: a remove command goes on to persist only if its target exists; one that
\* names a missing headmate returns the "no entries found" error in the same
\* step, which leaves registry.json and the backup folders as they were.
C5_RemoveMissing ==
  [][/\ \A p \in Tasks :
          (pc[p] = "idle" /\ pc'[p] = "p_history" /\ op'[p].kind = "remove") =>
            /\ op'[p].g \in DOMAIN data
            /\ op'[p].u \in DOMAIN data[op'[p].g]
            /\ IsSome(headmate(data[op'[p].g][op'[p].u], op'[p].hm))
     /\ RemoveReturns =>
          /\ \E p \in Tasks :
               /\ reply'[p].status \in {"err_no_entries", "err_no_primary"}
               /\ \A q \in Tasks \ {p} : reply'[q] = reply[q]
          /\ registry' = registry /\ bku' = bku /\ writeLog' = writeLog]_vars

\* The first mutating command was a remove of a headmate that does not exist:
\* it returned the error, and registry.json still holds what setup wrote.
C5_Witness ==
  \E p \in Tasks :
    /\ reply[p].status = "err_no_entries"
    /\ nmut = 1
    /\ Len(writeLog) = 1
    /\ registry = Some(Written(EmptyData))

(* -------------------------------- C2 ---------------------------------- *)

AllTiers == {"history", "hourly", "daily", "monthly"}

\* The file that task p's persist call wrote into a tier.
CopyOf(p, tier) == bku[tier][BucketKey(tier, op[p].ts)]

\* C2 as stated: every backup file written by a persist call that began with
\* a registry.json holds what the file held then.
C2_AllTiersPreWrite ==
  \A p \in Procs : \A tier \in op[p].copied :
    IsSome(op[p].pre) =>
      /\ BucketKey(tier, op[p].ts) \in DOMAIN bku[tier]
      /\ CopyOf(p, tier) = Unwrap(op[p].pre)

\* C2, amended: the history file written by a persist call holds what
\* registry.json held when the call began; the hourly, daily and monthly files
\* it writes are copies made after the overwrite and hold the new snapshot.
C2_HistoryPreWrite ==
  \A p \in Procs : \A tier \in op[p].copied :
    /\ BucketKey(tier, op[p].ts) \in DOMAIN bku[tier]
    /\ IF tier = "history"
       THEN IsSome(op[p].pre) /\ CopyOf(p, tier) = Unwrap(op[p].pre)
       ELSE CopyOf(p, tier) = Written(data)

\* A persist call has copied into all four tiers and the snapshot it
\* overwrote differs from the one it wrote.
C2_Witness ==
  \E p \in Tasks :
    /\ pc[p] = "p_done"
    /\ op[p].copied = AllTiers
    /\ Unwrap(op[p].pre) # Written(data)

(* -------------------------------- C7 ---------------------------------- *)

\* Task p's persist call is past its history step.
PastHistory(p) == pc[p] \in {"p_write", "p_hourly", "p_daily", "p_monthly", "p_done"}

\* C7 as stated: a persist call that began without registry.json copies into
\* no tier.
C7_NoCopyAtAll ==
  \A p \in Procs : (PastHistory(p) /\ ~IsSome(op[p].pre)) => op[p].copied = {}

\* C7, amended: a persist call that began without registry.json makes no
\* history copy; once it has written the file, its hourly, daily and monthly
\* steps copy that new file.
C7_NoHistoryCopy ==
  \A p \in Procs :
    (PastHistory(p) /\ ~IsSome(op[p].pre)) =>
      /\ "history" \notin op[p].copied
      /\ \A tier \in op[p].copied : CopyOf(p, tier) = Written(data)
      /\ (pc[p] = "p_done" /\ IsSome(registry)) =>
           op[p].copied = {"hourly", "daily", "monthly"}

\* A persist call that began without registry.json has ended with copies in
\* the hourly, daily and monthly tiers.
C7_Witness ==
  \E p \in Tasks :
    /\ pc[p] = "p_done"
    /\ ~IsSome(op[p].pre)
    /\ op[p].copied = {"hourly", "daily", "monthly"}

(* -------------------------------- C10 --------------------------------- *)

\* The entry a mutating command is about, as the registry in memory has it.
Target(d, o) ==
  IF o.g \in DOMAIN d /\ o.u \in DOMAIN d[o.g] THEN headmate(d[o.g][o.u], o.hm) ELSE None

\* C10: a persist call that fails inside a command ends the command with the
\* persist error and the write lock released, and the registry in memory is
\* what the command made it: a result added stays added, an entry removed
\* stays removed.
C10_NoRollback ==
  [][\A p \in Tasks :
       (pc[p] \in PersistPcs /\ pc'[p] = "idle") =>
         /\ reply'[p].status = "err_persist"
         /\ rw'.writer = None
         /\ data' = data
         /\ op[p].kind = "add" =>
              IsSome(Target(data', op[p])) /\ DOMAIN Unwrap(Target(data', op[p])) # {}
         /\ op[p].kind = "remove" => ~IsSome(Target(data', op[p]))]_vars

\* A command has returned the persist error, and the registry in memory is not
\* what the complete document in registry.json says.
C10_Witness ==
  \E p \in Tasks :
    /\ reply[p].status = "err_persist"
    /\ IsSome(registry) /\ Unwrap(registry).valid
    /\ Deserialize(Unwrap(registry).doc) # data

(* -------------------------------- C3 ---------------------------------- *)

Range(seq) == {seq[i] : i \in 1..Len(seq)}

\* No persist call is under way.
Quiescent == \A p \in Procs : pc[p] \notin PersistPcs

\* The seconds in which registry.json was overwritten, and the second of a
\* persist call that has made its history copy and is about to overwrite it.
WriteSeconds == Range(writeLog) \cup {op[p].ts : p \in {q \in Procs : pc[q] = "p_write"}}

Newest(S, k) == {t \in S : Cardinality({u \in S : u > t}) < k}

\* C3 as stated: after more than 20 writes the history tier holds exactly 20
\* files, those of the 20 most recent writes.
C3_TwentyPerWrite ==
  (Quiescent /\ Len(writeLog) > KeepHistory) =>
    /\ Cardinality(DOMAIN bku["history"]) = KeepHistory
    /\ DOMAIN bku["history"]
         = {writeLog[i] : i \in (Len(writeLog) - KeepHistory + 1)..Len(writeLog)}

\* C3, amended: the history tier holds one file per second in which a write
\* happened, for the 20 most recent such seconds (all of them while there are
\* fewer than 20).
C3_TwentyPerSecond ==
  DOMAIN bku["history"] = Newest(WriteSeconds, KeepHistory)

\* After more than 20 writes, two of them in the same second, the history tier
\* holds 20 files and the file of an earlier write has been pruned.
C3_Witness ==
  /\ Quiescent
  /\ Len(writeLog) > KeepHistory
  /\ Cardinality(Range(writeLog)) < Len(writeLog)
  /\ Cardinality(DOMAIN bku["history"]) = KeepHistory
  /\ \E t \in Range(writeLog) : t \notin DOMAIN bku["history"]

(* -------------------------------- C11 --------------------------------- *)

\* The entities of a registry: its guilds <<g>>, their users <<g, u>> and the
\* HeadmateData of the users <<g, u, slot>>, the slot None being the primary.
Entities(d) ==
  {<<g>> : g \in DOMAIN d}
  \cup UNION {{<<g, u>> : u \in DOMAIN d[g]} : g \in DOMAIN d}
  \cup UNION {UNION {{<<g, u, hm>> : hm \in {h \in HmArgs : IsSome(headmate(d[g][u], h))}}
                     : u \in DOMAIN d[g]} : g \in DOMAIN d}

\* The entities a command with the arguments o goes through.
PathOf(o) == {<<o.g>>, <<o.g, o.u>>, <<o.g, o.u, o.hm>>}

\* C11: an entity comes into the registry in memory only in the step of an
\* add command that writes a result through it; no other step creates one.
C11_CreatedOnlyByAdd ==
  [][\A e \in Entities(data') \ Entities(data) :
       \E p \in Tasks :
         /\ pc[p] = "idle" /\ pc'[p] = "p_history" /\ op'[p].kind = "add"
         /\ e \in PathOf(op'[p])]_vars

(* -------------------------------- C12 --------------------------------- *)

\* C12: every HeadmateData of the registry in memory, primary or named,
\* holds at least one result.
C12_NeverEmpty ==
  \A g \in DOMAIN data : \A u \in DOMAIN data[g] :
    /\ IsSome(data[g][u].primary) => DOMAIN Unwrap(data[g][u].primary) # {}
    /\ \A n \in DOMAIN data[g][u].headmates : DOMAIN data[g][u].headmates[n] # {}

\* Two add commands have run: one user has a primary HeadmateData and the
\* other a named one, each with a result.
C12_Witness ==
  /\ nmut = 2
  /\ DOMAIN data = {1} /\ DOMAIN data[1] = {1, 2}
  /\ IsSome(data[1][1].primary) /\ DOMAIN Unwrap(data[1][1].primary) # {}
  /\ DOMAIN data[1][2].headmates = {Alex}
  /\ DOMAIN data[1][2].headmates[Alex] # {}

(* -------------------------------- C13 --------------------------------- *)

\* The next candidate of task p's listing has no results.
EmptyCandidate(p) ==
  /\ pc[p] = "l_next"
  /\ ls[p].todo # << >>
  /\ ~IsSome(MostRecent(Head(ls[p].todo).results))

\* C13: the step of a listing whose next candidate has no results drops that
\* candidate, adds no row and leaves the listing running.
C13_EmptySkipped ==
  [][\A p \in Tasks :
       (EmptyCandidate(p) /\ <<pc'[p], ls'[p]>> # <<pc[p], ls[p]>>) =>
         /\ pc'[p] = "l_next"
         /\ ls'[p].todo = Tail(ls[p].todo)
         /\ ls'[p].rows = ls[p].rows]_vars

(* -------------------------------- C14 --------------------------------- *)

\* The bucket keys of a tier in which registry.json has been overwritten.
WrittenBuckets(tier) == {BucketKey(tier, writeLog[i]) : i \in 1..Len(writeLog)}

\* C14: when no persist call is under way the hourly tier holds at most 24
\* files and the daily tier at most 30; no step removes a file of the monthly
\* tier, and its files are those of the 28-day buckets written in, one each.
C14_TierBounds ==
  [][/\ Quiescent' =>
          /\ Cardinality(DOMAIN bku'["hourly"]) <= KeepHourly
          /\ Cardinality(DOMAIN bku'["daily"]) <= KeepDaily
          /\ DOMAIN bku'["monthly"] = WrittenBuckets("monthly")'
     /\ DOMAIN bku["monthly"] \subseteq DOMAIN bku'["monthly"]
     /\ Cardinality(DOMAIN bku'["monthly"]) <= Cardinality(DOMAIN bku["monthly"]) + 1]_vars

\* Writes have fallen in more than 24 hourly and more than 30 daily buckets and
\* in several 28-day buckets; the hourly tier holds 24 files, the daily tier
\* 30 and the monthly tier one per 28-day bucket.
C14_Witness ==
  /\ Quiescent
  /\ Cardinality(WrittenBuckets("hourly")) > KeepHourly
  /\ Cardinality(WrittenBuckets("daily")) > KeepDaily
  /\ Cardinality(DOMAIN bku["hourly"]) = KeepHourly
  /\ Cardinality(DOMAIN bku["daily"]) = KeepDaily
  /\ Cardinality(DOMAIN bku["monthly"]) >= 2

(* -------------------------------- C15 --------------------------------- *)

\* The step of persist that copies into a tier.
StepOf(tier) == IF tier = "history" THEN "p_history" ELSE TierPc(tier)

\* C15: a step of persist that copies into a tier leaves the tier with the
\* files it had and the new one, less the excess over the retention count,
\* and the files gone are those with the oldest bucket keys.
C15_PrunesOldest ==
  [][\A p \in Procs : \A tier \in AllTiers :
       (pc[p] = StepOf(tier) /\ pc'[p] = PersistNext(StepOf(tier))
          /\ tier \in op'[p].copied) =>
         DOMAIN bku'[tier]
           = Newest(DOMAIN bku[tier] \cup {BucketKey(tier, op'[p].ts)}, Keep(tier))]_vars

(* -------------------------------- C16 --------------------------------- *)

\* C16: the rows of a listing that has returned are in descending order of
\* score, and no numeric row, one with score 0 included, comes after an
\* invalid one.
C16_DescendingInvalidLast ==
  \A p \in Tasks :
    reply[p].status = "ok" =>
      \A i \in 1..Len(reply[p].rows) : \A j \in (i + 1)..Len(reply[p].rows) :
        /\ reply[p].rows[i].score >= reply[p].rows[j].score
        /\ reply[p].rows[i].score = -1 => reply[p].rows[j].score = -1

\* A listing has returned the rows 70, 0 and invalid in that order, the
\* invalid one being the row of the candidate visited first.
C16_Witness ==
  \E p \in Tasks :
    /\ reply[p].status = "ok"
    /\ Len(reply[p].rows) = 3
    /\ reply[p].rows[1].score = 70
    /\ reply[p].rows[2].score = 0
    /\ reply[p].rows[3].score = -1
    /\ reply[p].rows[3].u = 1

(* -------------------------------- C17 --------------------------------- *)

\* The HeadmateData that the entity <<g, u, slot>> names in a registry.
DataOf(d, e) == Unwrap(headmate(d[e[1]][e[2]], e[3]))

\* Task p's step is a remove command that has removed its target.
Removes(p) == pc[p] = "idle" /\ pc'[p] = "p_history" /\ op'[p].kind = "remove"

\* C17: the step of a remove command that succeeds takes the targeted
\* HeadmateData of the caller out of the registry and nothing else: the guilds
\* and users stay, the caller's included, and every other HeadmateData is as
\* it was.
C17_RemovesOnlyTarget ==
  [][\A p \in Tasks :
       Removes(p) =>
         LET target == <<op'[p].g, op'[p].u, op'[p].hm>>
         IN  /\ op'[p].u = Author(p)
             /\ target \in Entities(data)
             /\ Entities(data') = Entities(data) \ {target}
             /\ <<op'[p].g>> \in Entities(data')
             /\ <<op'[p].g, op'[p].u>> \in Entities(data')
             /\ \A e \in Entities(data') : Len(e) = 3 => DataOf(data', e) = DataOf(data, e)]_vars

\* A user has removed their only HeadmateData: their UserData is still in the
\* registry, empty, and the other user's primary and headmate are as loaded.
C17_Witness ==
  \E p \in Tasks :
    /\ pc[p] = "p_done" /\ op[p].kind = "remove"
    /\ DOMAIN data = {1} /\ DOMAIN data[1] = {1, 2}
    /\ data[1][1] = DefaultUser
    /\ data[1][2] = ListData[1][2]

(* -------------------------------- C18 --------------------------------- *)

\* C18: a lookup holds the cache lock from its cache check to its insert, so
\* the miss it saw is still a miss when its answer comes, one request at most
\* is in flight, and the Score Service answers at most once for each
\* unordered pair of result ids.
C18_FetchedOnce ==
  /\ \A pair \in DOMAIN fetched : Len(fetched[pair]) <= 1
  /\ \A p \in Tasks : pc[p] = "l_net" <=> cacheLock = Some(p)
  /\ \A p \in Tasks : pc[p] = "l_net" => ~IsSome(CacheGet(cache, CurReq(p)))

\* One listing has its request for a pair in flight while another listing,
\* whose next lookup is for the same pair, waits for the cache lock.
C18_Witness ==
  \E p \in Tasks : \E q \in Tasks \ {p} :
    /\ pc[p] = "l_net"
    /\ pc[q] = "l_next" /\ ls[q].todo # << >>
    /\ PairOf(CurReq(q)) = PairOf(CurReq(p))
    /\ ~IsSome(CacheGet(cache, CurReq(q)))

(* -------------------------------- C19 --------------------------------- *)

\* C19: once setup is done, whenever nobody holds the write lock,
\* registry.json holds the serialization of the registry in memory (no persist
\* call fails in the general specification).
C19_FileMatchesMemory ==
  (phase = "ready" /\ ~IsSome(rw.writer)) => registry = Some(Written(data))

(* -------------------------------- C20 --------------------------------- *)

\* Task p holds none of the locks.
HoldsNothing(p) == rw.writer # Some(p) /\ p \notin rw.readers /\ cacheLock # Some(p)

\* C20: whoever holds the cache lock holds a read lock on the registry and no
\* writer holds the cache lock, so the locks are taken in one order; and under
\* fair scheduling every command that has started comes to its end, with or
\* without an error, holding no lock, so that both locks are free again and
\* again for whoever waits for them.
C20_CommandsComplete ==
  /\ [](\A p \in Tasks : cacheLock = Some(p) => (p \in rw.readers /\ rw.writer = None))
  /\ \A p \in Tasks : (pc[p] # "idle") ~> (pc[p] = "idle" /\ HoldsNothing(p))
  /\ []<>(rw.writer = None /\ rw.readers = {} /\ cacheLock = None)

\* Both tasks are inside a listing with the read lock: one has the cache lock
\* and its request in flight, the other waits for the cache lock, and a
\* mutating command has run before.
C20_Witness ==
  \E p \in Tasks : \E q \in Tasks \ {p} :
    /\ rw.readers = {p, q}
    /\ cacheLock = Some(p) /\ pc[p] = "l_net"
    /\ pc[q] = "l_next" /\ ls[q].todo # << >>
    /\ nmut > 0

====
